---------------------------- MODULE Spec2Model ----------------------------
(***************************************************************************)
(* Curve sampling and stroke tessellation of vvsob/bezier.                 *)
(*                                                                         *)
(*   src/src/vertex.rs  Vertex, RenderData::new, RenderData::merge         *)
(*   src/src/curve.rs   Bezier::subdivide/eval/lerp, impl PolyLine         *)
(*   src/src/curve/renderer.rs   impl ConnectionRenderer                   *)
(*                                                                         *)
(* Numbers.  An f64 is modelled as an exact rational [n, d] in lowest      *)
(* terms with d > 0, or as NaN ([n |-> 0, d |-> 0]): the code's only       *)
(* divisions by zero are 0/0 (subdivide(1), normalize of a zero vector).   *)
(* Rounding of f64 arithmetic is not modelled.  The f64 -> f32 conversion  *)
(* of Vertex::new_f64 is modelled as rounding to the grid of multiples of  *)
(* 1/F32Scale: lossy, idempotent, monotone and NaN-preserving, as the cast *)
(* is.                                                                     *)
(***************************************************************************)
EXTENDS Integers, Sequences, FiniteSets, TLC

VARIABLES
    impl,       \* the tessellator called: "PolyLine" or "ConnectionRenderer"
    points,     \* PolyLine.points of the polyline being tessellated
    width,      \* the half-width handed to get_render_data
    pc,         \* position inside get_render_data
    i,          \* the loop variable of the running for loop
    result,     \* the local `result` of get_render_data
    nan_choice, \* what geo's line_intersection answers on NaN coordinates
    curve,      \* the Bezier whose subdivide is called
    count,      \* the argument of subdivide
    sampled,    \* what subdivide returned
    bpc,        \* position of the subdivide call
    frags,      \* the fragments A, B, C handed to merge
    merged,     \* the merge results computed so far
    mdone       \* which merges have been computed

vars == <<impl, points, width, pc, i, result, nan_choice,
          curve, count, sampled, bpc, frags, merged, mdone>>

tessVars == <<impl, points, width, pc, i, result, nan_choice>>
bezVars == <<curve, count, sampled, bpc>>
mergeVars == <<frags, merged, mdone>>

-----------------------------------------------------------------------------
(* Bounds of the model *)

\* longest polyline handed to the tessellator
MaxPoints == 4
\* largest sample count handed to subdivide
MaxCount == 4
\* largest coordinate of a Bezier control point
MaxCoord == 1
\* longest vertex list of a fragment handed to merge directly
MaxFragVerts == 1
\* the f32 grid: a Vertex coordinate is a multiple of 1/F32Scale
F32Scale == 64

-----------------------------------------------------------------------------
(* f64 arithmetic *)

Abs(x) == IF x < 0 THEN -x ELSE x

RECURSIVE GCD(_, _)
GCD(a, b) == IF b = 0 THEN a ELSE GCD(b, a % b)

NaN == [n |-> 0, d |-> 0]

IsNaN(x) == x.d = 0

Frac(n, d) ==
    IF d = 0 THEN NaN
    ELSE LET g == GCD(Abs(n), Abs(d))
             s == IF d < 0 THEN -1 ELSE 1
         IN  [n |-> (s * n) \div g, d |-> (s * d) \div g]

Num(k) == [n |-> k, d |-> 1]

FAdd(a, b) == IF IsNaN(a) \/ IsNaN(b) THEN NaN
              ELSE Frac(a.n * b.d + b.n * a.d, a.d * b.d)

FNeg(a) == IF IsNaN(a) THEN NaN ELSE [n |-> -a.n, d |-> a.d]

FSub(a, b) == FAdd(a, FNeg(b))

FMul(a, b) == IF IsNaN(a) \/ IsNaN(b) THEN NaN
              ELSE Frac(a.n * b.n, a.d * b.d)

\* x / 0 is NaN for x = 0; the code never divides a non-zero number by zero
FDiv(a, b) == IF IsNaN(a) \/ IsNaN(b) THEN NaN
              ELSE Frac(a.n * b.d, a.d * b.n)

\* the comparisons of f64: every comparison with NaN is false
FEq(a, b) == ~IsNaN(a) /\ ~IsNaN(b) /\ a = b
FLt(a, b) == ~IsNaN(a) /\ ~IsNaN(b) /\ a.n * b.d < b.n * a.d
FGt(a, b) == FLt(b, a)
FGe(a, b) == ~IsNaN(a) /\ ~IsNaN(b) /\ a.n * b.d >= b.n * a.d
FLe(a, b) == FGe(b, a)

\* f64::sqrt on the squares the model produces (a NaN stays a NaN)
FSqrt(a) ==
    IF IsNaN(a) THEN NaN
    ELSE Frac(CHOOSE r \in 0..a.n : r * r = a.n, CHOOSE r \in 1..a.d : r * r = a.d)

\* `x as f32`: the nearest multiple of 1/F32Scale, ties away from zero
F32(a) ==
    IF IsNaN(a) THEN NaN
    ELSE LET m == Abs(a.n) * F32Scale
             q == (2 * m + a.d) \div (2 * a.d)
         IN  Frac(IF a.n < 0 THEN -q ELSE q, F32Scale)

-----------------------------------------------------------------------------
(* cgmath::Vector2<f64> *)

vec2(x, y) == [x |-> x, y |-> y]
Pt(x, y) == vec2(Num(x), Num(y))

VAdd(a, b) == vec2(FAdd(a.x, b.x), FAdd(a.y, b.y))
VSub(a, b) == vec2(FSub(a.x, b.x), FSub(a.y, b.y))
VScale(a, s) == vec2(FMul(a.x, s), FMul(a.y, s))
VDivS(a, s) == vec2(FDiv(a.x, s), FDiv(a.y, s))
magnitude(a) == FSqrt(FAdd(FMul(a.x, a.x), FMul(a.y, a.y)))
\* InnerSpace::normalize: self / self.magnitude(); (0,0) gives (NaN,NaN)
normalize(a) == VDivS(a, magnitude(a))
VHasNaN(a) == IsNaN(a.x) \/ IsNaN(a.y)
\* PartialEq of two coordinates
VEq(a, b) == FEq(a.x, b.x) /\ FEq(a.y, b.y)

-----------------------------------------------------------------------------
(* vertex.rs *)

Vertex_new_f64(p) == [position |-> <<F32(p.x), F32(p.y)>>]

RenderData_new == [vertices |-> <<>>, indices |-> <<>>]

\* a mutant: the offset is taken from the other fragment's vertex count
merge_offset_other(self, other) ==
    LET vertices_len == Len(other.vertices)
    IN  [vertices |-> self.vertices \o other.vertices,
         indices |-> self.indices \o
                     [k \in 1..Len(other.indices) |-> other.indices[k] + vertices_len]]

\* a mutant: the other fragment's indices are chained without the offset
merge_no_offset(self, other) ==
    [vertices |-> self.vertices \o other.vertices,
     indices |-> self.indices \o other.indices]

\* a mutant: the offset is read after the vertex lists were chained
merge_offset_total(self, other) ==
    LET vertices_len == Len(self.vertices \o other.vertices)
    IN  [vertices |-> self.vertices \o other.vertices,
         indices |-> self.indices \o
                     [k \in 1..Len(other.indices) |-> other.indices[k] + vertices_len]]

merge(self, other) ==
    LET vertices_len == Len(self.vertices)
    IN  [vertices |-> self.vertices \o other.vertices,
         indices |-> self.indices \o
                     [k \in 1..Len(other.indices) |-> other.indices[k] + vertices_len]]

-----------------------------------------------------------------------------
(* curve.rs: Bezier *)

\* end * t + start * (1.0 - t)
lerp(start, end, t) == VAdd(VScale(end, t), VScale(start, FSub(Num(1), t)))

eval(b, t) ==
    LET a1 == lerp(b.start, b.middle, t)
        b1 == lerp(b.middle, b.end, t)
    IN  lerp(a1, b1, t)

\* a mutant: the parameter step is 1/count, so the last sample stops short of end
subdivide_step_count(b, c) ==
    [k \in 1..c |-> eval(b, FDiv(Num(k - 1), Num(c)))]

\* (0..count).map(|i| self.eval(i as f64 / (count - 1) as f64)).collect();
\* the closure, and with it count - 1, is evaluated only for count >= 1
subdivide(b, c) ==
    [k \in 1..c |-> eval(b, FDiv(Num(k - 1), Num(c - 1)))]

-----------------------------------------------------------------------------
(* geo::algorithm::line_intersection, as curve.rs calls it on two geo::Line *)
(* values: an intersection test of two SEGMENTS (bounding boxes, then exact *)
(* orientation predicates), answering None, SinglePoint or Collinear.       *)

line(start, end) == [start |-> start, end |-> end]

LineHasNaN(l) == VHasNaN(l.start) \/ VHasNaN(l.end)

FMin(a, b) == IF FLt(a, b) THEN a ELSE b
FMax(a, b) == IF FLt(a, b) THEN b ELSE a

bounding_rect(l) ==
    [min |-> vec2(FMin(l.start.x, l.end.x), FMin(l.start.y, l.end.y)),
     max |-> vec2(FMax(l.start.x, l.end.x), FMax(l.start.y, l.end.y))]

rect_intersects_rect(a, b) ==
    ~(FLt(a.max.x, b.min.x) \/ FLt(a.max.y, b.min.y)
      \/ FGt(a.min.x, b.max.x) \/ FGt(a.min.y, b.max.y))

rect_intersects_coord(r, c) ==
    FGe(c.x, r.min.x) /\ FGe(c.y, r.min.y) /\ FLe(c.x, r.max.x) /\ FLe(c.y, r.max.y)

Cross(a, b) == FSub(FMul(a.x, b.y), FMul(a.y, b.x))

\* the robust kernel: the exact sign of the determinant
orient2d(a, b, c) ==
    LET det == Cross(VSub(a, c), VSub(b, c))
    IN  IF FGt(det, Num(0)) THEN "CounterClockwise"
        ELSE IF FLt(det, Num(0)) THEN "Clockwise"
        ELSE "Collinear"

NoIntersection == [kind |-> "None", intersection |-> vec2(NaN, NaN)]
SinglePoint(c) == [kind |-> "SinglePoint", intersection |-> c]
CollinearOverlap == [kind |-> "Collinear", intersection |-> vec2(NaN, NaN)]

\* the match on (p_bounds has q.start, p_bounds has q.end, q_bounds has
\* p.start, q_bounds has p.end)
by_containment(p, q, qs, qe, ps, pe) ==
        IF qs /\ qe THEN CollinearOverlap
        ELSE IF ps /\ pe THEN CollinearOverlap
        ELSE IF qs /\ ps THEN
            (IF ~qe /\ ~pe /\ VEq(q.start, p.start)
             THEN SinglePoint(q.start) ELSE CollinearOverlap)
        ELSE IF qs /\ pe THEN
            (IF ~qe /\ ~ps /\ VEq(q.start, p.end)
             THEN SinglePoint(q.start) ELSE CollinearOverlap)
        ELSE IF qe /\ ps THEN
            (IF ~qs /\ ~pe /\ VEq(q.end, p.start)
             THEN SinglePoint(q.end) ELSE CollinearOverlap)
        ELSE IF qe /\ pe THEN
            (IF ~qs /\ ~ps /\ VEq(q.end, p.end)
             THEN SinglePoint(q.end) ELSE CollinearOverlap)
        ELSE NoIntersection

collinear_intersection(p, q) ==
    by_containment(p, q,
                   rect_intersects_coord(bounding_rect(p), q.start),
                   rect_intersects_coord(bounding_rect(p), q.end),
                   rect_intersects_coord(bounding_rect(q), p.start),
                   rect_intersects_coord(bounding_rect(q), p.end))

\* the crossing point of two segments known to cross properly
proper_intersection(p, q) ==
    LET dp == VSub(p.end, p.start)
        dq == VSub(q.end, q.start)
        t == FDiv(Cross(VSub(q.start, p.start), dq), Cross(dp, dq))
    IN  VAdd(p.start, VScale(dp, t))

\* the case analysis on the four orientations p_q1, p_q2, q_p1, q_p2
by_orientation(p, q, p_q1, p_q2, q_p1, q_p2) ==
    IF p_q1 = p_q2 /\ p_q1 # "Collinear" THEN NoIntersection
    ELSE IF q_p1 = q_p2 /\ q_p1 # "Collinear" THEN NoIntersection
    ELSE IF {p_q1, p_q2, q_p1, q_p2} = {"Collinear"}
         THEN collinear_intersection(p, q)
    ELSE IF "Collinear" \in {p_q1, p_q2, q_p1, q_p2} THEN
        SinglePoint(
            IF VEq(p.start, q.start) \/ VEq(p.start, q.end) THEN p.start
            ELSE IF VEq(p.end, q.start) \/ VEq(p.end, q.end) THEN p.end
            ELSE IF p_q1 = "Collinear" THEN q.start
            ELSE IF p_q2 = "Collinear" THEN q.end
            ELSE IF q_p1 = "Collinear" THEN p.start
            ELSE p.end)
    ELSE SinglePoint(proper_intersection(p, q))

\* the answer on lines without NaN coordinates
line_intersection_finite(p, q) ==
    IF ~rect_intersects_rect(bounding_rect(p), bounding_rect(q)) THEN NoIntersection
    ELSE by_orientation(p, q,
                        orient2d(p.start, p.end, q.start),
                        orient2d(p.start, p.end, q.end),
                        orient2d(q.start, q.end, p.start),
                        orient2d(q.start, q.end, p.end))

\* on a line with a NaN coordinate (an offset line of a zero-length segment)
\* the library's answer is not fixed by this repository: `na` is its answer
line_intersection(p, q, na) ==
    IF LineHasNaN(p) \/ LineHasNaN(q)
    THEN [kind |-> na, intersection |-> vec2(NaN, NaN)]
    ELSE line_intersection_finite(p, q)

\* the answers on sides .0 and .1 of a joint with NaN lines; every other pair
\* of answers is matched by get_connection as <<"None", "None">> is
NanAnswers == {<<"None", "None">>, <<"SinglePoint", "None">>, <<"None", "SinglePoint">>}

-----------------------------------------------------------------------------
(* curve.rs: impl PolyLine.  Indices are the code's: points[k] is P(pts, k). *)

P(pts, k) == pts[k + 1]

\* usize: `a - b` wraps in a release build.  TLC's integers are 32 bits wide,
\* so the modulus 2^64 is scaled to 2^30; it only has to exceed every length.
UsizeModulus == 2^30
wrapping_sub(a, b) == (a - b + UsizeModulus) % UsizeModulus

offset_by_direction(point, direction) ==
    <<VAdd(point, vec2(direction.y, FNeg(direction.x))),
      VAdd(point, vec2(FNeg(direction.y), direction.x))>>

\* panic!() when i + 1 == len, index out of bounds when i >= len
get_start_points_panics(pts, k) == k + 1 = Len(pts) \/ k >= Len(pts)

get_start_points(pts, k, w) ==
    offset_by_direction(P(pts, k),
                        VScale(normalize(VSub(P(pts, k + 1), P(pts, k))), w))

\* panic!() when i == 0, index out of bounds when i >= len
get_end_points_panics(pts, k) == k = 0 \/ k >= Len(pts)

get_end_points(pts, k, w) ==
    offset_by_direction(P(pts, k),
                        VScale(normalize(VSub(P(pts, k), P(pts, k - 1))), w))

None == [some |-> FALSE, intersection |-> vec2(NaN, NaN), side |-> FALSE]
Some(c, b) == [some |-> TRUE, intersection |-> c, side |-> b]

get_connection_panics(pts, k) ==
    \/ get_start_points_panics(pts, k - 1)
    \/ get_end_points_panics(pts, k)
    \/ get_start_points_panics(pts, k)
    \/ get_end_points_panics(pts, k + 1)

\* the two line_intersection calls of get_connection: <<side .0, side .1>>
intersections_of(start_points, end_points, next_start_points, next_end_points, nc) ==
    <<line_intersection(line(start_points[1], end_points[1]),
                        line(next_start_points[1], next_end_points[1]), nc[1]),
      line_intersection(line(start_points[2], end_points[2]),
                        line(next_start_points[2], next_end_points[2]), nc[2])>>

intersections(pts, k, w, nc) ==
    intersections_of(get_start_points(pts, k - 1, w), get_end_points(pts, k, w),
                     get_start_points(pts, k, w), get_end_points(pts, k + 1, w), nc)

\* a mutant: a joint whose two sides both meet in a point is connected too
match_intersections_both(x) ==
    IF x[1].kind = "SinglePoint" THEN Some(x[1].intersection, FALSE)
    ELSE IF x[2].kind = "SinglePoint" /\ x[1].kind = "None"
    THEN Some(x[2].intersection, TRUE)
    ELSE None

\* a mutant: the joint test never finds a connection
match_intersections_never(x) == None

\* a mutant: the side flags of the two arms are exchanged
match_intersections_flipped(x) ==
    IF x[1].kind = "SinglePoint" /\ x[2].kind = "None"
    THEN Some(x[1].intersection, TRUE)
    ELSE IF x[1].kind = "None" /\ x[2].kind = "SinglePoint"
    THEN Some(x[2].intersection, FALSE)
    ELSE None

\* the match of get_connection on the pair of answers
match_intersections(x) ==
    IF x[1].kind = "SinglePoint" /\ x[2].kind = "None"
    THEN Some(x[1].intersection, FALSE)
    ELSE IF x[1].kind = "None" /\ x[2].kind = "SinglePoint"
    THEN Some(x[2].intersection, TRUE)
    ELSE None

get_connection(pts, k, w, nc) == match_intersections(intersections(pts, k, w, nc))

\* a mutant: the point of side .0 is replaced whatever the joint test found
adjusted_unconditional(pair, c) ==
    IF ~c.side THEN <<c.intersection, pair[2]>>
    ELSE IF c.some /\ c.side THEN <<pair[1], c.intersection>>
    ELSE pair

\* the match of get_adjusted_start_points and of get_adjusted_end_points on
\* the joint: the point of the connected side is replaced by the intersection
adjusted(pair, c) ==
    IF c.some /\ ~c.side THEN <<c.intersection, pair[2]>>
    ELSE IF c.some /\ c.side THEN <<pair[1], c.intersection>>
    ELSE pair

\* a mutant: the joint is consulted at the first point too
get_adjusted_start_points_panics_unguarded(pts, k) ==
    get_start_points_panics(pts, k) \/ get_connection_panics(pts, k)

get_adjusted_start_points_panics(pts, k) ==
    get_start_points_panics(pts, k) \/ (k # 0 /\ get_connection_panics(pts, k))

get_adjusted_start_points(pts, k, w, nc) ==
    IF k = 0 THEN get_start_points(pts, k, w)
    ELSE adjusted(get_start_points(pts, k, w), get_connection(pts, k, w, nc))

get_adjusted_end_points_panics(pts, k) ==
    get_end_points_panics(pts, k)
    \/ (k + 1 # Len(pts) /\ get_connection_panics(pts, k))

get_adjusted_end_points(pts, k, w, nc) ==
    IF k + 1 = Len(pts) THEN get_end_points(pts, k, w)
    ELSE adjusted(get_end_points(pts, k, w), get_connection(pts, k, w, nc))

get_segment_render_data_panics(pts, k) ==
    get_adjusted_start_points_panics(pts, k - 1)
    \/ get_adjusted_end_points_panics(pts, k)

\* a mutant: the quad's indices are written 1-based
quad_one_based(start_points, end_points) ==
    [vertices |-> <<Vertex_new_f64(start_points[1]), Vertex_new_f64(start_points[2]),
                    Vertex_new_f64(end_points[1]), Vertex_new_f64(end_points[2])>>,
     indices |-> <<1, 3, 4, 1, 4, 2>>]

\* the quad of a segment; the indices are the code's, 0-based
quad(start_points, end_points) ==
    [vertices |-> <<Vertex_new_f64(start_points[1]), Vertex_new_f64(start_points[2]),
                    Vertex_new_f64(end_points[1]), Vertex_new_f64(end_points[2])>>,
     indices |-> <<0, 2, 3, 0, 3, 1>>]

get_segment_render_data(pts, k, w, nc) ==
    quad(get_adjusted_start_points(pts, k - 1, w, nc),
         get_adjusted_end_points(pts, k, w, nc))

get_connection_render_data_panics(pts, k) == get_connection_panics(pts, k)

\* a mutant: the fill triangle takes the offset points of the connected side
fill_same_side(c, end_points, start_points) ==
    IF c.some /\ ~c.side THEN
        [vertices |-> <<Vertex_new_f64(end_points[1]), Vertex_new_f64(c.intersection),
                        Vertex_new_f64(start_points[1])>>,
         indices |-> <<0, 1, 2>>]
    ELSE IF c.some /\ c.side THEN
        [vertices |-> <<Vertex_new_f64(end_points[2]), Vertex_new_f64(c.intersection),
                        Vertex_new_f64(start_points[2])>>,
         indices |-> <<0, 1, 2>>]
    ELSE [vertices |-> <<>>, indices |-> <<>>]

\* the fill triangle of a joint, or nothing
fill(c, end_points, start_points) ==
    IF c.some /\ ~c.side THEN
        [vertices |-> <<Vertex_new_f64(end_points[2]), Vertex_new_f64(c.intersection),
                        Vertex_new_f64(start_points[2])>>,
         indices |-> <<0, 1, 2>>]
    ELSE IF c.some /\ c.side THEN
        [vertices |-> <<Vertex_new_f64(end_points[1]), Vertex_new_f64(c.intersection),
                        Vertex_new_f64(start_points[1])>>,
         indices |-> <<0, 1, 2>>]
    ELSE [vertices |-> <<>>, indices |-> <<>>]

get_connection_render_data(pts, k, w, nc) ==
    fill(get_connection(pts, k, w, nc), get_end_points(pts, k, w),
         get_start_points(pts, k, w))

\* The calls of get_start_points and get_end_points that each function makes,
\* as <<callee, index>>; the index arithmetic is left unwrapped, so that an
\* i - 1 taken at 0 shows as -1
get_connection_calls(k) ==
    {<<"get_start_points", k - 1>>, <<"get_end_points", k>>,
     <<"get_start_points", k>>, <<"get_end_points", k + 1>>}

get_adjusted_start_points_calls(pts, k) ==
    {<<"get_start_points", k>>} \cup (IF k = 0 THEN {} ELSE get_connection_calls(k))

get_adjusted_end_points_calls(pts, k) ==
    {<<"get_end_points", k>>}
        \cup (IF k + 1 = Len(pts) THEN {} ELSE get_connection_calls(k))

get_segment_render_data_calls(pts, k) ==
    get_adjusted_start_points_calls(pts, k - 1) \cup get_adjusted_end_points_calls(pts, k)

get_connection_render_data_calls(pts, k, w, nc) ==
    get_connection_calls(k)
        \cup (IF get_connection(pts, k, w, nc).some
              THEN {<<"get_end_points", k>>, <<"get_start_points", k>>} ELSE {})

-----------------------------------------------------------------------------
(* curve/renderer.rs: impl ConnectionRenderer, the same tessellator written *)
(* a second time over a borrowed PolyLine                                   *)

make_line(start, end) == [start |-> start, end |-> end]

cr_offset_by_direction(point, direction) ==
    <<VAdd(point, vec2(direction.y, FNeg(direction.x))),
      VAdd(point, vec2(FNeg(direction.y), direction.x))>>

\* panic!() when i + 1 == len, index out of bounds when i >= len
cr_get_start_points_panics(pts, k) == k + 1 = Len(pts) \/ k >= Len(pts)

cr_get_start_points(pts, k, w) ==
    cr_offset_by_direction(P(pts, k),
                        VScale(normalize(VSub(P(pts, k + 1), P(pts, k))), w))

\* panic!() when i == 0, index out of bounds when i >= len
cr_get_end_points_panics(pts, k) == k = 0 \/ k >= Len(pts)

cr_get_end_points(pts, k, w) ==
    cr_offset_by_direction(P(pts, k),
                        VScale(normalize(VSub(P(pts, k), P(pts, k - 1))), w))

cr_get_connection_panics(pts, k) ==
    \/ cr_get_start_points_panics(pts, k - 1)
    \/ cr_get_end_points_panics(pts, k)
    \/ cr_get_start_points_panics(pts, k)
    \/ cr_get_end_points_panics(pts, k + 1)

\* the two line_intersection calls of get_connection: <<side .0, side .1>>
cr_intersections_of(start_points, end_points, next_start_points, next_end_points, nc) ==
    <<line_intersection(make_line(start_points[1], end_points[1]),
                        make_line(next_start_points[1], next_end_points[1]), nc[1]),
      line_intersection(make_line(start_points[2], end_points[2]),
                        make_line(next_start_points[2], next_end_points[2]), nc[2])>>

cr_intersections(pts, k, w, nc) ==
    cr_intersections_of(cr_get_start_points(pts, k - 1, w), cr_get_end_points(pts, k, w),
                     cr_get_start_points(pts, k, w), cr_get_end_points(pts, k + 1, w), nc)

\* the match of get_connection on the pair of answers
cr_match_intersections(x) ==
    IF x[1].kind = "SinglePoint" /\ x[2].kind = "None"
    THEN Some(x[1].intersection, FALSE)
    ELSE IF x[1].kind = "None" /\ x[2].kind = "SinglePoint"
    THEN Some(x[2].intersection, TRUE)
    ELSE None

cr_get_connection(pts, k, w, nc) == cr_match_intersections(cr_intersections(pts, k, w, nc))

\* the match of get_adjusted_start_points and of get_adjusted_end_points on
\* the joint: the point of the connected side is replaced by the intersection
cr_adjusted(pair, c) ==
    IF c.some /\ ~c.side THEN <<c.intersection, pair[2]>>
    ELSE IF c.some /\ c.side THEN <<pair[1], c.intersection>>
    ELSE pair

cr_get_adjusted_start_points_panics(pts, k) ==
    cr_get_start_points_panics(pts, k) \/ (k # 0 /\ cr_get_connection_panics(pts, k))

cr_get_adjusted_start_points(pts, k, w, nc) ==
    IF k = 0 THEN cr_get_start_points(pts, k, w)
    ELSE cr_adjusted(cr_get_start_points(pts, k, w), cr_get_connection(pts, k, w, nc))

cr_get_adjusted_end_points_panics(pts, k) ==
    cr_get_end_points_panics(pts, k)
    \/ (k + 1 # Len(pts) /\ cr_get_connection_panics(pts, k))

cr_get_adjusted_end_points(pts, k, w, nc) ==
    IF k + 1 = Len(pts) THEN cr_get_end_points(pts, k, w)
    ELSE cr_adjusted(cr_get_end_points(pts, k, w), cr_get_connection(pts, k, w, nc))

cr_get_segment_render_data_panics(pts, k) ==
    cr_get_adjusted_start_points_panics(pts, k - 1)
    \/ cr_get_adjusted_end_points_panics(pts, k)

\* a mutant: the copy winds the two triangles of the quad the other way
cr_quad_rewound(start_points, end_points) ==
    [vertices |-> <<Vertex_new_f64(start_points[1]), Vertex_new_f64(start_points[2]),
                    Vertex_new_f64(end_points[1]), Vertex_new_f64(end_points[2])>>,
     indices |-> <<0, 3, 2, 0, 1, 3>>]

\* the quad of a segment; the indices are the code's, 0-based
cr_quad(start_points, end_points) ==
    [vertices |-> <<Vertex_new_f64(start_points[1]), Vertex_new_f64(start_points[2]),
                    Vertex_new_f64(end_points[1]), Vertex_new_f64(end_points[2])>>,
     indices |-> <<0, 2, 3, 0, 3, 1>>]

cr_get_segment_render_data(pts, k, w, nc) ==
    cr_quad(cr_get_adjusted_start_points(pts, k - 1, w, nc),
         cr_get_adjusted_end_points(pts, k, w, nc))

cr_get_connection_render_data_panics(pts, k) == cr_get_connection_panics(pts, k)

\* the fill triangle of a joint, or nothing
cr_fill(c, end_points, start_points) ==
    IF c.some /\ ~c.side THEN
        [vertices |-> <<Vertex_new_f64(end_points[2]), Vertex_new_f64(c.intersection),
                        Vertex_new_f64(start_points[2])>>,
         indices |-> <<0, 1, 2>>]
    ELSE IF c.some /\ c.side THEN
        [vertices |-> <<Vertex_new_f64(end_points[1]), Vertex_new_f64(c.intersection),
                        Vertex_new_f64(start_points[1])>>,
         indices |-> <<0, 1, 2>>]
    ELSE [vertices |-> <<>>, indices |-> <<>>]

cr_get_connection_render_data(pts, k, w, nc) ==
    cr_fill(cr_get_connection(pts, k, w, nc), cr_get_end_points(pts, k, w),
         cr_get_start_points(pts, k, w))

-----------------------------------------------------------------------------
(* The tessellator that was called *)

segment_panics(im, pts, k) ==
    IF im = "PolyLine" THEN get_segment_render_data_panics(pts, k)
    ELSE cr_get_segment_render_data_panics(pts, k)

segment(im, pts, k, w, nc) ==
    IF im = "PolyLine" THEN get_segment_render_data(pts, k, w, nc)
    ELSE cr_get_segment_render_data(pts, k, w, nc)

connection_panics(im, pts, k) ==
    IF im = "PolyLine" THEN get_connection_render_data_panics(pts, k)
    ELSE cr_get_connection_render_data_panics(pts, k)

connection(im, pts, k, w, nc) ==
    IF im = "PolyLine" THEN get_connection_render_data(pts, k, w, nc)
    ELSE cr_get_connection_render_data(pts, k, w, nc)

-----------------------------------------------------------------------------
(* The inputs *)

\* the steps between consecutive points of a polyline: along the axes, a
\* repeated point, and two perpendicular oblique steps of length 5
Steps == {Pt(1, 0), Pt(2, 0), Pt(0, 2), Pt(-1, 0), Pt(0, 0), Pt(3, 4), Pt(4, -3)}

Widths == {Num(1), Num(2)}

RECURSIVE Path(_, _)
Path(from, steps) ==
    IF steps = <<>> THEN <<from>>
    ELSE <<from>> \o Path(VAdd(from, Head(steps)), Tail(steps))

PolyLines ==
    {<<>>} \cup UNION {{Path(Pt(0, 0), ss) : ss \in [1..n -> Steps]} : n \in 0..(MaxPoints - 1)}

Degenerate(pts) == \E k \in 1..(Len(pts) - 1) : pts[k] = pts[k + 1]

-----------------------------------------------------------------------------
(* PolyLine::get_render_data and ConnectionRenderer::render, one loop     *)
(* iteration per step                                                      *)

BezIdle ==
    /\ curve = [start |-> Pt(0, 0), middle |-> Pt(0, 0), end |-> Pt(0, 0)]
    /\ count = 0
    /\ sampled = <<>>
    /\ bpc = "idle"

MergeIdle ==
    /\ frags = <<>>
    /\ merged = <<>>
    /\ mdone = {}

TessIdle ==
    /\ impl = "PolyLine"
    /\ points = <<>>
    /\ width = Num(1)
    /\ pc = "idle"
    /\ i = 0
    /\ result = RenderData_new
    /\ nan_choice = <<"None", "None">>

\* let mut result = RenderData::new(); the first loop starts at 1
Init ==
    /\ impl \in {"PolyLine", "ConnectionRenderer"}
    /\ points \in PolyLines
    /\ width \in Widths
    /\ nan_choice \in (IF Degenerate(points) THEN NanAnswers ELSE {<<"None", "None">>})
    /\ pc = "segments"
    /\ i = 1
    /\ result = RenderData_new
    /\ BezIdle
    /\ MergeIdle

\* for i in 1..self.points.len() { result = result.merge(segment i) }
SegmentStep ==
    /\ pc = "segments"
    /\ i < Len(points)
    /\ IF segment_panics(impl, points, i)
       THEN pc' = "panicked" /\ UNCHANGED <<i, result>>
       ELSE /\ result' = merge(result, segment(impl, points, i, width, nan_choice))
            /\ i' = i + 1
            /\ pc' = pc
    /\ UNCHANGED <<impl, points, width, nan_choice, bezVars, mergeVars>>

\* the first loop ends and 1..self.points.len() - 1 is evaluated: on an empty
\* polyline the subtraction panics (overflow checks on) or wraps (off)
SegmentsDone ==
    /\ pc = "segments"
    /\ i >= Len(points)
    /\ \/ Len(points) = 0 /\ pc' = "panicked" /\ UNCHANGED i
       \/ pc' = "connections" /\ i' = 1
    /\ UNCHANGED <<impl, points, width, result, nan_choice, bezVars, mergeVars>>

\* for i in 1..self.points.len() - 1 { result = result.merge(joint i) }
ConnectionStep ==
    /\ pc = "connections"
    /\ i < wrapping_sub(Len(points), 1)
    /\ IF connection_panics(impl, points, i)
       THEN pc' = "panicked" /\ UNCHANGED <<i, result>>
       ELSE /\ result' = merge(result, connection(impl, points, i, width, nan_choice))
            /\ i' = i + 1
            /\ pc' = pc
    /\ UNCHANGED <<impl, points, width, nan_choice, bezVars, mergeVars>>

\* the function returns `result`
ConnectionsDone ==
    /\ pc = "connections"
    /\ i >= wrapping_sub(Len(points), 1)
    /\ pc' = "returned"
    /\ UNCHANGED <<impl, points, width, i, result, nan_choice, bezVars, mergeVars>>

Next == SegmentStep \/ SegmentsDone \/ ConnectionStep \/ ConnectionsDone

Spec == Init /\ [][Next]_vars

-----------------------------------------------------------------------------
(* Bezier::subdivide, called once on a curve and a count *)

Coords == {Pt(x, y) : x \in 0..MaxCoord, y \in 0..MaxCoord}

Beziers == [start : Coords, middle : Coords, end : Coords]

InitBezier ==
    /\ curve \in Beziers
    /\ count \in 0..MaxCount
    /\ sampled = <<>>
    /\ bpc = "call"
    /\ TessIdle
    /\ MergeIdle

\* subdivide returns a PolyLine; it has no other way out
Subdivide ==
    /\ bpc = "call"
    /\ sampled' = subdivide(curve, count)
    /\ bpc' = "returned"
    /\ UNCHANGED <<curve, count, tessVars, mergeVars>>

NextBezier == Subdivide

SpecBezier == InitBezier /\ [][NextBezier]_vars

-----------------------------------------------------------------------------
(* RenderData::merge on three fragments A, B, C, grouped both ways: the     *)
(* merges AB and BC may be computed in either order (or side by side), then *)
(* (AB)C and A(BC).                                                         *)

VertexPool == {Vertex_new_f64(Pt(0, 0)), Vertex_new_f64(Pt(1, 0))}

IndexLists == {<<>>, <<0>>, <<1, 0>>}

VertexLists == UNION {[1..n -> VertexPool] : n \in 0..MaxFragVerts}

Fragments == [vertices : VertexLists, indices : IndexLists]

InitMerge ==
    /\ frags \in [1..3 -> Fragments]
    /\ merged = [ab |-> RenderData_new, bc |-> RenderData_new,
                 left |-> RenderData_new, right |-> RenderData_new]
    /\ mdone = {}
    /\ TessIdle
    /\ BezIdle

MergeAB ==
    /\ "ab" \notin mdone
    /\ merged' = [merged EXCEPT !.ab = merge(frags[1], frags[2])]
    /\ mdone' = mdone \cup {"ab"}
    /\ UNCHANGED <<frags, tessVars, bezVars>>

MergeBC ==
    /\ "bc" \notin mdone
    /\ merged' = [merged EXCEPT !.bc = merge(frags[2], frags[3])]
    /\ mdone' = mdone \cup {"bc"}
    /\ UNCHANGED <<frags, tessVars, bezVars>>

MergeLeft ==
    /\ "ab" \in mdone
    /\ "left" \notin mdone
    /\ merged' = [merged EXCEPT !.left = merge(merged.ab, frags[3])]
    /\ mdone' = mdone \cup {"left"}
    /\ UNCHANGED <<frags, tessVars, bezVars>>

MergeRight ==
    /\ "bc" \in mdone
    /\ "right" \notin mdone
    /\ merged' = [merged EXCEPT !.right = merge(frags[1], merged.bc)]
    /\ mdone' = mdone \cup {"right"}
    /\ UNCHANGED <<frags, tessVars, bezVars>>

NextMerge == MergeAB \/ MergeBC \/ MergeLeft \/ MergeRight

SpecMerge == InitMerge /\ [][NextMerge]_vars

-----------------------------------------------------------------------------
(* Properties *)

MeshValid(m) ==
    /\ \A k \in 1..Len(m.indices) : m.indices[k] < Len(m.vertices)
    /\ Len(m.indices) % 3 = 0

\* C1: for a polyline of at least 2 points the accumulated mesh has every
\* index below the number of vertices and a multiple of 3 indices, after
\* every merge of a segment or joint fragment and when it is returned.
C1_MeshValid == Len(points) >= 2 => MeshValid(result)

C1_Witness ==
    /\ pc = "returned"
    /\ Len(points) >= 3
    /\ Len(result.indices) > 6 * (Len(points) - 1)

\* C2: merge(A, B) has A's vertices followed by B's vertices, and A's indices
\* unchanged followed by each index of B increased by the number of A's
\* vertices.
C2_MergeConcatenates ==
    "ab" \in mdone =>
        LET A == frags[1]
            B == frags[2]
            M == merged.ab
        IN  /\ Len(M.vertices) = Len(A.vertices) + Len(B.vertices)
            /\ \A k \in 1..Len(A.vertices) : M.vertices[k] = A.vertices[k]
            /\ \A k \in 1..Len(B.vertices) :
                   M.vertices[Len(A.vertices) + k] = B.vertices[k]
            /\ Len(M.indices) = Len(A.indices) + Len(B.indices)
            /\ \A k \in 1..Len(A.indices) : M.indices[k] = A.indices[k]
            /\ \A k \in 1..Len(B.indices) :
                   M.indices[Len(A.indices) + k] = B.indices[k] + Len(A.vertices)

C2_Witness ==
    /\ "ab" \in mdone
    /\ Len(frags[1].vertices) > 0
    /\ Len(frags[1].indices) > 0
    /\ Len(frags[2].vertices) > 0
    /\ Len(frags[2].indices) > 1
    /\ frags[1].vertices # frags[2].vertices

\* C3: merge is associative: once (AB)C and A(BC) are both computed, in
\* whatever order the inner merges ran, they are the same mesh.
C3_MergeAssociative ==
    {"left", "right"} \subseteq mdone => merged.left = merged.right

C3_Witness ==
    /\ {"left", "right"} \subseteq mdone
    /\ \A k \in 1..3 : Len(frags[k].vertices) > 0 /\ Len(frags[k].indices) > 0
    /\ frags[1].vertices # frags[2].vertices

\* C4: the empty fragment is an identity of merge on both sides:
\* merge(A, empty) = A and merge(empty, A) = A.
C4_EmptyIsIdentity ==
    "ab" \in mdone =>
        /\ frags[2] = RenderData_new =>
               /\ merged.ab.vertices = frags[1].vertices
               /\ merged.ab.indices = frags[1].indices
        /\ frags[1] = RenderData_new =>
               /\ merged.ab.vertices = frags[2].vertices
               /\ merged.ab.indices = frags[2].indices

C4_Witness ==
    /\ "ab" \in mdone
    /\ frags[1] = RenderData_new
    /\ Len(frags[2].vertices) > 0
    /\ Len(frags[2].indices) > 0

\* the quadratic Bezier curve in Bernstein form
Bernstein(b, t) ==
    VAdd(VAdd(VScale(b.start, FMul(FSub(Num(1), t), FSub(Num(1), t))),
              VScale(b.middle, FMul(Num(2), FMul(t, FSub(Num(1), t))))),
         VScale(b.end, FMul(t, t)))

\* C5: for count >= 2, subdivide(count) returns exactly count points, the
\* k-th being the curve at t = k/(count-1) for k = 0..count-1, so the first
\* is start and the last is end; subdivide(2) is exactly [start, end].
C5_SubdivideSamples ==
    (bpc = "returned" /\ count >= 2) =>
        /\ Len(sampled) = count
        /\ sampled[1] = curve.start
        /\ sampled[count] = curve.end
        /\ \A k \in 1..count :
               sampled[k] = Bernstein(curve, FDiv(Num(k - 1), Num(count - 1)))
        /\ count = 2 => sampled = <<curve.start, curve.end>>

C5_Witness ==
    /\ bpc = "returned"
    /\ count >= 3
    /\ curve.start # curve.end
    /\ sampled[2] \notin {curve.start, curve.end, curve.middle}

\* C6: subdivide(count) with count < 2 signals an invalid-sample-count error
\* and returns no polyline.
C6_SmallCountIsError == (bpc # "call" /\ count < 2) => bpc = "failed"

\* C7: given a polyline of fewer than 2 points the tessellator returns a
\* malformed-polyline error: it neither panics nor returns a mesh.
C7_ShortPolylineIsError == Len(points) < 2 => pc \notin {"panicked", "returned"}

\* C8: a polyline with two identical consecutive points makes the
\* tessellator report a degenerate-segment error: no mesh is returned.
C8_DegenerateIsError == (Len(points) >= 2 /\ Degenerate(points)) => pc # "returned"

\* the step from point k - 1 to point k (the code's indices)
Step(pts, k) == VSub(P(pts, k), P(pts, k - 1))
Dot(a, b) == FAdd(FMul(a.x, b.x), FMul(a.y, b.y))
Zero == Num(0)

\* three distinct points on a line, in order
Straight3(pts) ==
    /\ Len(pts) = 3
    /\ Cross(Step(pts, 1), Step(pts, 2)) = Zero
    /\ FGt(Dot(Step(pts, 1), Step(pts, 2)), Zero)

\* C9: a 3-point polyline whose points are distinct and collinear in one
\* direction yields two segment quads and no fill triangle: 8 vertices, 12
\* indices, the quads' vertices being the unadjusted offset points, and the
\* joint test finds no connection.
C9_StraightLine ==
    (pc = "returned" /\ Straight3(points)) =>
        /\ Len(result.vertices) = 8
        /\ Len(result.indices) = 12
        /\ result.indices = <<0, 2, 3, 0, 3, 1, 4, 6, 7, 4, 7, 5>>
        /\ result.vertices =
               <<Vertex_new_f64(get_start_points(points, 0, width)[1]),
                 Vertex_new_f64(get_start_points(points, 0, width)[2]),
                 Vertex_new_f64(get_end_points(points, 1, width)[1]),
                 Vertex_new_f64(get_end_points(points, 1, width)[2]),
                 Vertex_new_f64(get_start_points(points, 1, width)[1]),
                 Vertex_new_f64(get_start_points(points, 1, width)[2]),
                 Vertex_new_f64(get_end_points(points, 2, width)[1]),
                 Vertex_new_f64(get_end_points(points, 2, width)[2])>>
        /\ ~get_connection(points, 1, width, nan_choice).some

C9_Witness ==
    /\ pc = "returned"
    /\ Straight3(points)
    /\ magnitude(Step(points, 1)) # magnitude(Step(points, 2))

\* joint k is an exact 90-degree turn between two segments longer than w
RightAngle(pts, k, w) ==
    /\ Dot(Step(pts, k), Step(pts, k + 1)) = Zero
    /\ FGt(magnitude(Step(pts, k)), w)
    /\ FGt(magnitude(Step(pts, k + 1)), w)

OneSideOnly(x) ==
    \/ x[1].kind = "SinglePoint" /\ x[2].kind = "None"
    \/ x[1].kind = "None" /\ x[2].kind = "SinglePoint"

\* C10: at an exact 90-degree turn between segments longer than the
\* half-width the joint test finds a single point on exactly one side and
\* nothing on the other, get_connection returns Some, and exactly one fill
\* triangle is emitted for the joint.
C10_RightAngle ==
    /\ \A k \in 1..(Len(points) - 2) :
           RightAngle(points, k, width) =>
               /\ OneSideOnly(intersections(points, k, width, nan_choice))
               /\ get_connection(points, k, width, nan_choice).some
               /\ Len(get_connection_render_data(points, k, width, nan_choice).vertices) = 3
    /\ (pc = "returned" /\ Len(points) = 3 /\ RightAngle(points, 1, width)) =>
           /\ Len(result.vertices) = 11
           /\ result.indices = <<0, 2, 3, 0, 3, 1, 4, 6, 7, 4, 7, 5, 8, 9, 10>>

C10_Witness ==
    /\ pc = "returned"
    /\ Len(points) = 3
    /\ RightAngle(points, 1, width)
    /\ Len(result.vertices) = 11

\* the interior joints of a polyline (the code's indices)
Joints(pts) == 1..(Len(pts) - 2)

\* joint k joins two segments of non-zero length
FiniteJoint(pts, k) == P(pts, k - 1) # P(pts, k) /\ P(pts, k) # P(pts, k + 1)

\* > 0 at a left turn, < 0 at a right turn, 0 where the steps are parallel
Turn(pts, k) == Cross(Step(pts, k), Step(pts, k + 1))

\* side .0 is the right of the direction of travel, side .1 (TRUE) the left:
\* the inner side of a left turn is .1, of a right turn .0
InnerSide(pts, k) == FGt(Turn(pts, k), Zero)

Pick(pair, side) == IF side THEN pair[2] ELSE pair[1]

\* the offset boundary of the segment ending at joint k / starting there
BoundaryBefore(pts, k, w, side) ==
    line(Pick(get_start_points(pts, k - 1, w), side), Pick(get_end_points(pts, k, w), side))
BoundaryAfter(pts, k, w, side) ==
    line(Pick(get_start_points(pts, k, w), side), Pick(get_end_points(pts, k + 1, w), side))

\* c lies on the bounded segment l
OnSegment(c, l) ==
    /\ orient2d(l.start, l.end, c) = "Collinear"
    /\ rect_intersects_coord(bounding_rect(l), c)

\* where the two boundaries meet when extended to infinite lines
MiterCorner(p, q) == proper_intersection(p, q)

InnerCrossing(pts, k, w, nc, c) ==
    /\ Turn(pts, k) # Zero
    /\ c.side = InnerSide(pts, k)
    /\ OnSegment(c.intersection, BoundaryBefore(pts, k, w, c.side))
    /\ OnSegment(c.intersection, BoundaryAfter(pts, k, w, c.side))
    /\ c.intersection # MiterCorner(BoundaryBefore(pts, k, w, ~c.side),
                                    BoundaryAfter(pts, k, w, ~c.side))
    /\ get_connection_render_data(pts, k, w, nc).vertices =
           <<Vertex_new_f64(Pick(get_end_points(pts, k, w), ~c.side)),
             Vertex_new_f64(c.intersection),
             Vertex_new_f64(Pick(get_start_points(pts, k, w), ~c.side))>>

IfSome(pts, k, w, nc, c) == c.some => InnerCrossing(pts, k, w, nc, c)

BothOrNeither(x) == (x[1].kind = "None") <=> (x[2].kind = "None")

\* vertex j (1..4: start .0, start .1, end .0, end .1) of the quad of
\* segment s in result
QuadVertex(s, j) == result.vertices[4 * (s - 1) + j]

\* what C12 says of joint k once the answers x of its two sides are known
Unadjusted(k, x) ==
    BothOrNeither(x) =>
        /\ ~match_intersections(x).some
        /\ connection(impl, points, k, width, nan_choice) = RenderData_new
        /\ QuadVertex(k, 3) = Vertex_new_f64(get_end_points(points, k, width)[1])
        /\ QuadVertex(k, 4) = Vertex_new_f64(get_end_points(points, k, width)[2])
        /\ QuadVertex(k + 1, 1) = Vertex_new_f64(get_start_points(points, k, width)[1])
        /\ QuadVertex(k + 1, 2) = Vertex_new_f64(get_start_points(points, k, width)[2])

\* C12: at a joint where both sides intersect or neither does, the joint's
\* fragment is empty and the end vertices of the quad before it and the start
\* vertices of the quad after it are the unadjusted offset points.
C12_NoSnapNoFill ==
    (pc = "returned" /\ Len(points) >= 2) =>
        \A k \in Joints(points) :
            Unadjusted(k, intersections(points, k, width, nan_choice))

\* a finished polyline with a joint where both sides meet and a joint where
\* neither does
C12_Witness ==
    /\ pc = "returned"
    /\ Len(points) = 4
    /\ ~Degenerate(points)
    /\ \E k \in Joints(points) : intersections(points, k, width, nan_choice)[1].kind = "None"
                                /\ intersections(points, k, width, nan_choice)[2].kind = "None"
    /\ \E k \in Joints(points) : intersections(points, k, width, nan_choice)[1].kind # "None"
                                /\ intersections(points, k, width, nan_choice)[2].kind # "None"

\* side s (1 for .0, 2 for .1) of joint k meets in a single point and the
\* other side does not
OnlySide(x, s) == x[s].kind = "SinglePoint" /\ x[3 - s].kind # "SinglePoint"

\* what C13 says of joint k, its side s and its point p
SharedCorner(k, s, p) ==
    /\ QuadVertex(k, 2 + s) = Vertex_new_f64(p)
    /\ QuadVertex(k + 1, s) = Vertex_new_f64(p)
    /\ QuadVertex(k, 2 + (3 - s)) = Vertex_new_f64(get_end_points(points, k, width)[3 - s])
    /\ QuadVertex(k + 1, 3 - s) = Vertex_new_f64(get_start_points(points, k, width)[3 - s])
    /\ connection(impl, points, k, width, nan_choice) =
           [vertices |-> <<Vertex_new_f64(get_end_points(points, k, width)[3 - s]),
                           Vertex_new_f64(p),
                           Vertex_new_f64(get_start_points(points, k, width)[3 - s])>>,
            indices |-> <<0, 1, 2>>]

IfOnlySide(k, x) ==
    \A s \in {1, 2} : OnlySide(x, s) => SharedCorner(k, s, x[s].intersection)

\* C13: at a joint where exactly one side S meets in a single point P, the
\* quad before the joint ends in P on side S and the quad after it starts in
\* P on side S, the opposite vertices of both quads are the unadjusted offset
\* points, and the fill triangle is (opposite end point, P, opposite start
\* point) with local indices 0, 1, 2.
C13_SharedCorner ==
    (pc = "returned" /\ Len(points) >= 2) =>
    /\ \A k \in Joints(points) :
           IfOnlySide(k, intersections(points, k, width, nan_choice))
    /\ (Len(points) = 3 /\ get_connection(points, 1, width, nan_choice).some) =>
               /\ SubSeq(result.vertices, 9, 11) =
                      connection(impl, points, 1, width, nan_choice).vertices
               /\ SubSeq(result.indices, 13, 15) = <<8, 9, 10>>
               /\ Len(result.vertices) = 11 /\ Len(result.indices) = 15

\* a finished polyline with a joint connected on side .0 and a joint
\* connected on side .1
C13_Witness ==
    /\ pc = "returned"
    /\ Len(points) = 4
    /\ ~Degenerate(points)
    /\ \E k \in Joints(points) : OnlySide(intersections(points, k, width, nan_choice), 1)
    /\ \E k \in Joints(points) : OnlySide(intersections(points, k, width, nan_choice), 2)

\* the index of a call is one its callee accepts: 0..len-2 for
\* get_start_points, 1..len-1 for get_end_points
InRange(pts, call) ==
    IF call[1] = "get_start_points" THEN call[2] \in 0..(Len(pts) - 2)
    ELSE call[2] \in 1..(Len(pts) - 1)

\* the calls of the loop iteration about to run
PendingCalls ==
    IF pc = "segments" /\ i < Len(points)
    THEN get_segment_render_data_calls(points, i)
    ELSE IF pc = "connections" /\ i < Len(points) - 1
    THEN get_connection_render_data_calls(points, i, width, nan_choice)
    ELSE {}

\* C14: on a polyline of at least 2 points the tessellation never panics,
\* the loop index is at least 1 wherever i - 1 is taken, and every call of
\* get_start_points has its index in 0..len-2 and every call of
\* get_end_points in 1..len-1, in the segment loop and in the joint loop.
C14_NoPanic ==
    Len(points) >= 2 =>
        /\ pc # "panicked"
        /\ i >= 1
        /\ \A call \in PendingCalls : InRange(points, call)

\* both loops have run to the end on the longest polyline
C14_Witness ==
    /\ pc = "returned"
    /\ impl = "PolyLine"
    /\ Len(points) >= 4
    /\ Len(result.indices) >= 18

\* the implementation that is not running
Other(im) == IF im = "PolyLine" THEN "ConnectionRenderer" ELSE "PolyLine"

\* the iteration of the segment loop that the running implementation takes
\* is the one the other implementation would take
SameSegment ==
    (pc = "segments" /\ i < Len(points)) =>
        IF segment_panics(Other(impl), points, i)
        THEN pc' = "panicked"
        ELSE /\ pc' # "panicked"
             /\ result' = merge(result, segment(Other(impl), points, i, width, nan_choice))

\* the same of the joint loop
SameConnection ==
    (pc = "connections" /\ i < wrapping_sub(Len(points), 1)) =>
        IF connection_panics(Other(impl), points, i)
        THEN pc' = "panicked"
        ELSE /\ pc' # "panicked"
             /\ result' = merge(result, connection(Other(impl), points, i, width, nan_choice))

\* C15: ConnectionRenderer::render and PolyLine::get_render_data build the
\* same mesh fragment by fragment, segments in ascending order and then
\* joints in ascending order, and panic at the same step of the same inputs:
\* every step either of them takes is the step the other would take.
C15_Equivalent == [][SameSegment /\ SameConnection]_vars

\* the copy has returned a mesh with three quads and a fill triangle
C15_Witness ==
    /\ pc = "returned"
    /\ impl = "ConnectionRenderer"
    /\ Len(points) = 4
    /\ Len(result.vertices) > 12

=============================================================================
